---------------------------- MODULE Spec2Model ----------------------------
(***************************************************************************)
(* A model of scripts/generate_sample_data.py: EcommerceDataGenerator, the *)
(* synthetic e-commerce dataset generator.                                 *)
(*                                                                         *)
(* The generator object holds one DataFrame per table (None until the      *)
(* table's generate_* method has assigned it).  Every method is one action *)
(* here: its random draws are the action's \E, the exception it may raise  *)
(* is recorded in `last`, and the assignments it makes before raising stay *)
(* made, as in Python.                                                     *)
(*                                                                         *)
(* Rows carry the columns the properties below read.  Money is kept in     *)
(* integer cents, ratios in integer fractions of one, dates as day         *)
(* numbers.                                                                *)
(***************************************************************************)
EXTENDS Integers, Sequences, FiniteSets, TLC

VARIABLES
    base_date,        \* self.base_date, a day number
    end_date,         \* self.end_date = datetime.now().date(), a day number
    num_customers,    \* self.num_customers
    customers_df,     \* self.customers_df
    products_df,      \* self.products_df
    orders_df,        \* self.orders_df
    order_items_df,   \* self.order_items_df
    web_sessions_df,  \* self.web_sessions_df
    marketing_spend_df, \* self.marketing_spend_df
    pc,               \* the position of a running generate_complete_dataset
    first_run,        \* the tables of an earlier generator built alike
    last,             \* the last method call: its name, argument and outcome
    calc,             \* the draws and the result of one row's arithmetic
    setup             \* the run of the setup script: its arguments and position

genVars == <<base_date, end_date, num_customers, customers_df, products_df,
             orders_df, order_items_df, web_sessions_df, marketing_spend_df,
             calc, first_run, setup>>
vars == <<base_date, end_date, num_customers, customers_df, products_df,
          orders_df, order_items_df, web_sessions_df, marketing_spend_df,
          pc, first_run, last, calc, setup>>

---------------------------------------------------------------------------
(* Bounds of the model. *)

MaxCustomers == 2      \* num_customers of the constructor
MaxProducts == 2       \* num_products of a call, under Spec
MaxOrders == 1         \* num_orders of a call, under Spec
MaxCatalogue == 6      \* rows of the Products table, under SpecOrders
MaxBatch == 2          \* num_orders of the call, under SpecOrders
MaxSteps == 8          \* sample points of a uniform draw, less one
MaxLines == 2          \* items of the order whose amounts are computed
RunDate == 30          \* the day number of datetime.now().date()
MaxSessions == 1       \* num_sessions of a call
MaxRunCustomers == 1   \* num_customers of the constructor, under SpecRun
MaxSpareDays == 2      \* days of the date range beyond the least account age

(* Program constants. *)

MinAccountAgeDays == 30
CustIdWidth == 8
ProdIdWidth == 8
OrdIdWidth == 10
ItemSeqWidth == 2
SessIdWidth == 10
MaxAttempts == 30
SecondsPerDay == 86400

---------------------------------------------------------------------------
(* DataFrames.  None is the attribute's value before generation;           *)
(* DataFrame(<<>>) is pd.DataFrame([]): a table with no rows and no        *)
(* columns, so that reading a column of it raises.                         *)

None == [isNone |-> TRUE, rows |-> <<>>]

DataFrame(rows) == [isNone |-> FALSE, rows |-> rows]

IsEmptyFrame(df) == ~df.isNone /\ df.rows = <<>>

(* No row arithmetic is being followed. *)
NoCalc == [kind |-> "none"]

(* No earlier generator is being compared with. *)
NoRun == [made |-> FALSE]

(* The setup script is not being run. *)
NoSetup == [at |-> "none"]

(* No generate_complete_dataset call is running. *)
Idle == [stage |-> "idle"]

(* The outcome of a call that returned. *)
Returned(op, arg) == [op |-> op, arg |-> arg, exc |-> "none", msg |-> <<>>]

(* The outcome of a call that returned the value result. *)
ReturnedValue(op, arg, result) ==
    [op |-> op, arg |-> arg, exc |-> "none", msg |-> <<>>, result |-> result]

(* The outcome of a call that raised exc with the words msg. *)
Raised(op, arg, exc, msg) == [op |-> op, arg |-> arg, exc |-> exc, msg |-> msg]

---------------------------------------------------------------------------
(* f-string number formatting: f'{n:08d}' and f'{n:10d}'.  The decimal     *)
(* digits of n, left-padded with the fill character up to the width; a     *)
(* number wider than the width is not cut.                                 *)

DigitChar(d) == <<"0", "1", "2", "3", "4", "5", "6", "7", "8", "9">>[d + 1]

RECURSIVE Digits(_)
Digits(n) ==
    IF n < 10 THEN <<DigitChar(n)>>
    ELSE Append(Digits(n \div 10), DigitChar(n % 10))

FormatInt(n, width, fill) ==
    LET d == Digits(n)
    IN  IF Len(d) >= width THEN d
        ELSE [k \in 1..(width - Len(d)) |-> fill] \o d

(* The same with the loop index itself: f'CUST_{i:08d}'. *)
CustomerIdZeroBased(i) == <<"CUST_">> \o FormatInt(i - 1, CustIdWidth, "0")

CustomerId(i) == <<"CUST_">> \o FormatInt(i, CustIdWidth, "0")

ProductId(i) == <<"PROD_">> \o FormatInt(i, ProdIdWidth, "0")

OrderId(i) == <<"ORD_">> \o FormatInt(i, OrdIdWidth, " ")

OrderItemId(i, j) ==
    <<"ITEM_">> \o FormatInt(i, OrdIdWidth, " ") \o <<"_">>
        \o FormatInt(j, ItemSeqWidth, "0")

SessionId(i) == <<"SESS_">> \o FormatInt(i, SessIdWidth, " ")

(* An optional value: None, or the value. *)
NoValue == <<>>

Value(v) == <<v>>

---------------------------------------------------------------------------
(* generate_complete_dataset.  pc holds the arguments of the running call  *)
(* and the statement it has reached; each statement is one step, the       *)
(* whole of the method it calls.  An exception of a stage ends the call.   *)

(* The statements with the orders generated before the products. *)
StagesOrdersFirst ==
    <<"generate_customers", "generate_orders", "generate_products",
      "generate_web_sessions", "generate_marketing_spend",
      "print_dataset_summary">>

Stages ==
    <<"generate_customers", "generate_products", "generate_orders",
      "generate_web_sessions", "generate_marketing_spend",
      "print_dataset_summary">>

(* The statement after this one. *)
StageAfter(stage) ==
    Stages[1 + CHOOSE k \in 1..(Len(Stages) - 1) : Stages[k] = stage]

(* The argument the running call passes to a stage.  generate_customers    *)
(* takes none and reads self.num_customers.                                *)
StageArg(stage) ==
    CASE stage = "generate_customers" -> num_customers
      [] stage = "generate_products" -> pc.num_products
      [] stage = "generate_orders" -> pc.num_orders
      [] stage = "generate_web_sessions" -> pc.num_sessions
      [] OTHER -> 0

(* A call of the method op with the argument arg is either made while no   *)
(* generate_complete_dataset runs, or it is the statement the running call *)
(* has reached: then its return reaches the next statement and its         *)
(* exception leaves generate_complete_dataset.                             *)
Step(op, arg) ==
    /\ \/ pc = Idle
       \/ pc.stage = op /\ arg = StageArg(op)
    /\ pc' = IF pc = Idle \/ last'.exc # "none" THEN Idle
             ELSE [pc EXCEPT !.stage = StageAfter(op)]

(* The first statement of a generate_complete_dataset call, made with the  *)
(* arguments args.                                                         *)
FirstStep(op, args) ==
    /\ pc = Idle
    /\ pc' = IF last'.exc # "none" THEN Idle
             ELSE [stage |-> StageAfter(op), num_customers |-> args[1],
                   num_products |-> args[2], num_orders |-> args[3],
                   num_sessions |-> args[4]]

(* A call made only while no generate_complete_dataset runs. *)
Direct == pc = Idle /\ pc' = Idle

---------------------------------------------------------------------------
(* generate_customers.  args is <<>>, or the arguments of the              *)
(* generate_complete_dataset call whose first statement this is.           *)

Segments == {"VIP", "Regular", "New"}

(* One customer dict, for loop index i - 1. *)
Customer(i, segment, active) ==
    [customer_id |-> CustomerId(i),
     customer_segment |-> segment,
     is_active |-> active]

(* The tables the loop can build for num_customers = n >= 1. *)
CustomerTables(n) ==
    {DataFrame([i \in 1..n |-> Customer(i, draw[i][1], draw[i][2])]) :
        draw \in [1..n -> Segments \X BOOLEAN]}

call_generate_customers(args) ==
    LET op == "generate_customers"
        days_since_base == end_date - base_date
    IN
    \/ \* the loop body runs and random.randint(30, days_since_base) has an
       \* empty range
       /\ num_customers >= 1
       /\ days_since_base < MinAccountAgeDays
       /\ last' = Raised(op, num_customers, "ValueError",
                         <<"empty", "range", "for", "randrange()">>)
       /\ IF args = <<>> THEN Step(op, num_customers) ELSE FirstStep(op, args)
       /\ UNCHANGED genVars
    \/ /\ num_customers >= 1
       /\ days_since_base >= MinAccountAgeDays
       /\ customers_df' \in CustomerTables(num_customers)
       /\ last' = Returned(op, num_customers)
       /\ IF args = <<>> THEN Step(op, num_customers) ELSE FirstStep(op, args)
       /\ UNCHANGED <<base_date, end_date, num_customers, products_df,
                      orders_df, order_items_df, web_sessions_df,
                      marketing_spend_df, calc,
                      first_run, setup>>
    \/ \* range(num_customers) is empty: the frame has no columns and the
       \* summary's customer_segment lookup raises
       /\ num_customers <= 0
       /\ customers_df' = DataFrame(<<>>)
       /\ last' = Raised(op, num_customers, "AttributeError",
                         <<"customer_segment">>)
       /\ IF args = <<>> THEN Step(op, num_customers) ELSE FirstStep(op, args)
       /\ UNCHANGED <<base_date, end_date, num_customers, products_df,
                      orders_df, order_items_df, web_sessions_df,
                      marketing_spend_df, calc,
                      first_run, setup>>


(* self.generate_customers(), called on its own or reached by the running  *)
(* generate_complete_dataset.                                              *)
generate_customers == call_generate_customers(<<>>)

(* The call and its first statement, self.generate_customers(): the        *)
(* num_customers argument is not passed on.                                *)
generate_complete_dataset(nc, np, no, ns) ==
    call_generate_customers(<<nc, np, no, ns>>)

---------------------------------------------------------------------------
(* generate_products *)

Product(i, active) ==
    [product_id |-> ProductId(i),
     is_active |-> active]

(* The tables the loop can build for num_products = n >= 1. *)
ProductTables(n) ==
    {DataFrame([i \in 1..n |-> Product(i, draw[i])]) :
        draw \in [1..n -> BOOLEAN]}

generate_products(num_products) ==
    LET op == "generate_products"
    IN
    \/ /\ num_products >= 1
       /\ products_df' \in ProductTables(num_products)
       /\ last' = Returned(op, num_products)
       /\ Step(op, num_products)
       /\ UNCHANGED <<base_date, end_date, num_customers, customers_df,
                      orders_df, order_items_df, web_sessions_df,
                      marketing_spend_df, calc,
                      first_run, setup>>
    \/ \* no rows: the category summary's category_l1 lookup raises
       /\ num_products <= 0
       /\ products_df' = DataFrame(<<>>)
       /\ last' = Raised(op, num_products, "KeyError", <<"category_l1">>)
       /\ Step(op, num_products)
       /\ UNCHANGED <<base_date, end_date, num_customers, customers_df,
                      orders_df, order_items_df, web_sessions_df,
                      marketing_spend_df, calc,
                      first_run, setup>>

---------------------------------------------------------------------------
(* generate_orders *)

(* The VIP item counts, whatever the segment. *)
ItemCountsAnySegment(segment) == 1..5

(* The item counts random.choices draws from, by customer segment. *)
ItemCounts(segment) ==
    CASE segment = "VIP" -> 1..5
      [] segment = "Regular" -> 1..4
      [] OTHER -> 1..3

RECURSIVE Ascending(_)
Ascending(S) ==
    IF S = {} THEN <<>>
    ELSE LET m == CHOOSE x \in S : \A y \in S : x <= y
         IN  <<m>> \o Ascending(S \ {m})

(* DataFrame.sample(n=n): n rows of the frame, no row twice.  pandas       *)
(* returns them in a random order; they are listed here in table order.    *)
Sample(population, n) ==
    {[k \in 1..n |-> population[Ascending(S)[k]]] :
        S \in {T \in SUBSET (1..Len(population)) : Cardinality(T) = n}}

(* The ids of all customers, the is_active filter left out. *)
AllCustomers ==
    [k \in 1..Len(customers_df.rows) |-> customers_df.rows[k].customer_id]

(* customers_df[customers_df['is_active'] == True]['customer_id'].tolist() *)
ActiveCustomers ==
    LET act == SelectSeq(customers_df.rows, LAMBDA r : r.is_active)
    IN  [k \in 1..Len(act) |-> act[k].customer_id]

(* products_df[products_df['is_active'] == True] *)
ActiveProducts == SelectSeq(products_df.rows, LAMBDA r : r.is_active)

(* customers_df[customers_df['customer_id'] == customer_id].iloc[0] *)
CustomerInfo(customer_id) ==
    customers_df.rows[CHOOSE k \in 1..Len(customers_df.rows) :
        /\ customers_df.rows[k].customer_id = customer_id
        /\ \A m \in 1..(k - 1) : customers_df.rows[m].customer_id # customer_id]

(* The draws of one loop iteration that let it complete: the customer and  *)
(* the sampled products.                                                   *)
OrderDraws ==
    {[customer_id |-> c, selected_products |-> sel] :
        c \in {ActiveCustomers[k] : k \in 1..Len(ActiveCustomers)},
        sel \in UNION {Sample(ActiveProducts, n) : n \in 1..Len(ActiveProducts)}}

OrderDrawOk(d) ==
    Len(d.selected_products) \in ItemCounts(CustomerInfo(d.customer_id).customer_segment)

(* Some iteration can draw more items than there are active products.      *)
SampleCanRaise ==
    \E k \in 1..Len(ActiveCustomers) :
        \E n \in ItemCounts(CustomerInfo(ActiveCustomers[k]).customer_segment) :
            n > Len(ActiveProducts)

Order(i, d) ==
    [order_id |-> OrderId(i),
     customer_id |-> d.customer_id]

(* The item dict, its order_id formatted from the index of the next order. *)
OrderItemNextOrder(i, j, product) ==
    [order_item_id |-> OrderItemId(i, j),
     order_id |-> OrderId(i + 1),
     product_id |-> product.product_id]

OrderItem(i, j, product) ==
    [order_item_id |-> OrderItemId(i, j),
     order_id |-> OrderId(i),
     product_id |-> product.product_id]

(* order_items after the iterations 1..n with the draws ds. *)
RECURSIVE OrderItems(_, _)
OrderItems(ds, n) ==
    IF n = 0 THEN <<>>
    ELSE OrderItems(ds, n - 1) \o
         [j \in 1..Len(ds[n].selected_products) |->
             OrderItem(n, j, ds[n].selected_products[j])]

(* if self.customers_df is None or self.products_df is None *)
DimensionsMissing == customers_df.isNone \/ products_df.isNone

(* A message that names no table. *)
MissingDimensionsMessageVague == <<"Must", "generate", "dimensions", "first!">>

(* The words of the ValueError raised then. *)
MissingDimensionsMessage ==
    <<"Must", "generate", "customers", "and", "products", "first!">>

generate_orders(num_orders) ==
    LET op == "generate_orders"
    IN
    \/ /\ DimensionsMissing
       /\ last' = Raised(op, num_orders, "ValueError", MissingDimensionsMessage)
       /\ Step(op, num_orders)
       /\ UNCHANGED genVars
    \/ \* a frame without columns: the is_active filter raises
       /\ ~DimensionsMissing
       /\ IsEmptyFrame(customers_df) \/ IsEmptyFrame(products_df)
       /\ last' = Raised(op, num_orders, "KeyError", <<"is_active">>)
       /\ Step(op, num_orders)
       /\ UNCHANGED genVars
    \/ \* no iteration: both frames are assigned empty and the summary's
       \* total_amount lookup raises
       /\ ~DimensionsMissing
       /\ ~IsEmptyFrame(customers_df) /\ ~IsEmptyFrame(products_df)
       /\ num_orders <= 0
       /\ orders_df' = DataFrame(<<>>)
       /\ order_items_df' = DataFrame(<<>>)
       /\ last' = Raised(op, num_orders, "KeyError", <<"total_amount">>)
       /\ Step(op, num_orders)
       /\ UNCHANGED <<base_date, end_date, num_customers, customers_df,
                      products_df, web_sessions_df, marketing_spend_df,
                      calc, first_run, setup>>
    \/ \* random.choice of an empty list
       /\ ~DimensionsMissing
       /\ ~IsEmptyFrame(customers_df) /\ ~IsEmptyFrame(products_df)
       /\ num_orders >= 1
       /\ ActiveCustomers = <<>>
       /\ last' = Raised(op, num_orders, "IndexError",
                         <<"Cannot", "choose", "from", "an", "empty",
                           "sequence">>)
       /\ Step(op, num_orders)
       /\ UNCHANGED genVars
    \/ \* sample(n) of fewer than n active products
       /\ ~DimensionsMissing
       /\ ~IsEmptyFrame(customers_df) /\ ~IsEmptyFrame(products_df)
       /\ num_orders >= 1
       /\ SampleCanRaise
       /\ last' = Raised(op, num_orders, "ValueError",
                         <<"Cannot", "take", "a", "larger", "sample",
                           "than", "population">>)
       /\ Step(op, num_orders)
       /\ UNCHANGED genVars
    \/ /\ ~DimensionsMissing
       /\ ~IsEmptyFrame(customers_df) /\ ~IsEmptyFrame(products_df)
       /\ num_orders >= 1
       /\ \E ds \in [1..num_orders -> {d \in OrderDraws : OrderDrawOk(d)}] :
            /\ orders_df' = DataFrame([i \in 1..num_orders |-> Order(i, ds[i])])
            /\ order_items_df' = DataFrame(OrderItems(ds, num_orders))
       /\ last' = Returned(op, num_orders)
       /\ Step(op, num_orders)
       /\ UNCHANGED <<base_date, end_date, num_customers, customers_df,
                      products_df, web_sessions_df, marketing_spend_df,
                      calc, first_run, setup>>

---------------------------------------------------------------------------
(* generate_web_sessions *)

(* One session dict: its id and its customer attribution. *)
Session(i, customer_id) ==
    [session_id |-> SessionId(i),
     customer_id |-> customer_id]

(* customer_ids: every customer's id, or [] when there is no Customers     *)
(* table.                                                                  *)
CustomerIds ==
    IF customers_df.isNone THEN <<>>
    ELSE [k \in 1..Len(customers_df.rows) |-> customers_df.rows[k].customer_id]

(* random.choice(customer_ids) if customer_ids and random.random() < 0.7   *)
(* else None                                                               *)
Attributions ==
    {NoValue} \cup {Value(CustomerIds[k]) : k \in 1..Len(CustomerIds)}

generate_web_sessions(num_sessions) ==
    LET op == "generate_web_sessions"
    IN
    \/ \* a Customers frame without columns: the customer_id lookup raises
       /\ IsEmptyFrame(customers_df)
       /\ last' = Raised(op, num_sessions, "KeyError", <<"customer_id">>)
       /\ Step(op, num_sessions)
       /\ UNCHANGED genVars
    \/ \* fake.date_between with start_date after end_date: Faker either
       \* raises or returns a day, depending on its version
       /\ ~IsEmptyFrame(customers_df)
       /\ num_sessions >= 1
       /\ base_date > end_date
       /\ last' = Raised(op, num_sessions, "ValueError",
                         <<"empty", "range">>)
       /\ Step(op, num_sessions)
       /\ UNCHANGED genVars
    \/ /\ ~IsEmptyFrame(customers_df)
       /\ num_sessions >= 1
       /\ \E draw \in [1..num_sessions -> Attributions] :
            web_sessions_df' =
                DataFrame([i \in 1..num_sessions |-> Session(i, draw[i])])
       /\ last' = Returned(op, num_sessions)
       /\ Step(op, num_sessions)
       /\ UNCHANGED <<base_date, end_date, num_customers, customers_df,
                      products_df, orders_df, order_items_df,
                      marketing_spend_df, calc,
                      first_run, setup>>
    \/ \* no iteration: the frame is assigned empty and the summary's
       \* session_duration_seconds lookup raises
       /\ ~IsEmptyFrame(customers_df)
       /\ num_sessions <= 0
       /\ web_sessions_df' = DataFrame(<<>>)
       /\ last' = Raised(op, num_sessions, "KeyError",
                         <<"session_duration_seconds">>)
       /\ Step(op, num_sessions)
       /\ UNCHANGED <<base_date, end_date, num_customers, customers_df,
                      products_df, orders_df, order_items_df,
                      marketing_spend_df, calc,
                      first_run, setup>>

---------------------------------------------------------------------------
(* generate_marketing_spend *)

(* self.marketing_channels *)
MarketingChannels ==
    <<"Google Ads", "Facebook Ads", "Instagram Ads", "TikTok Ads",
      "Email Marketing", "SEO Organic", "Influencer Marketing",
      "TV Advertising", "Radio", "Affiliate Marketing", "Direct Mail">>

(* One marketing_record dict: the columns that identify it. *)
MarketingRecord(current_date, channel) ==
    [spend_date |-> current_date,
     channel |-> channel]

(* The records the for loop appends for one day, in channel order. *)
SpendDay(current_date) ==
    [k \in 1..Len(MarketingChannels) |->
        MarketingRecord(current_date, MarketingChannels[k])]

(* The loop test with the last day left out: current_date < self.end_date. *)
SpendLoopContinuesBeforeEnd(current_date) == current_date < end_date

(* while current_date <= self.end_date *)
SpendLoopContinues(current_date) == current_date <= end_date

(* marketing_data when the while loop exits, entered at current_date with  *)
(* the records so far; each turn ends with current_date += timedelta(1).   *)
RECURSIVE SpendLoop(_, _)
SpendLoop(current_date, marketing_data) ==
    IF SpendLoopContinues(current_date)
    THEN SpendLoop(current_date + 1, marketing_data \o SpendDay(current_date))
    ELSE marketing_data

generate_marketing_spend ==
    LET op == "generate_marketing_spend"
        marketing_data == SpendLoop(base_date, <<>>)
    IN
    \/ /\ marketing_data # <<>>
       /\ marketing_spend_df' = DataFrame(marketing_data)
       /\ last' = Returned(op, 0)
       /\ Step(op, 0)
       /\ UNCHANGED <<base_date, end_date, num_customers, customers_df,
                      products_df, orders_df, order_items_df, web_sessions_df,
                      calc, first_run, setup>>
    \/ \* no day in the range: the frame has no columns and the summary's
       \* spend_amount lookup raises
       /\ marketing_data = <<>>
       /\ marketing_spend_df' = DataFrame(marketing_data)
       /\ last' = Raised(op, 0, "KeyError", <<"spend_amount">>)
       /\ Step(op, 0)
       /\ UNCHANGED <<base_date, end_date, num_customers, customers_df,
                      products_df, orders_df, order_items_df, web_sessions_df,
                      calc, first_run, setup>>

---------------------------------------------------------------------------
(* save_all_data, print_dataset_summary, get_data_quality_report *)

(* The six tables by the name the report gives them, in the order the      *)
(* methods go through them.                                                *)
TableNames ==
    <<"customers", "products", "orders", "order_items", "web_sessions",
      "marketing_spend">>

Table(name) ==
    CASE name = "customers" -> customers_df
      [] name = "products" -> products_df
      [] name = "orders" -> orders_df
      [] name = "order_items" -> order_items_df
      [] name = "web_sessions" -> web_sessions_df
      [] name = "marketing_spend" -> marketing_spend_df

(* The tables that are not None. *)
PresentTables ==
    {name \in {TableNames[k] : k \in 1..Len(TableNames)} : ~Table(name).isNone}

(* One file is written for each table that is not None; os.makedirs or     *)
(* to_csv can fail on the file system.                                     *)
(* The files are written and the tables are then dropped. *)
SaveAllDataThenDiscard ==
    /\ Direct
    /\ last' = Returned("save_all_data", Cardinality(PresentTables))
    /\ customers_df' = None
    /\ products_df' = None
    /\ orders_df' = None
    /\ order_items_df' = None
    /\ web_sessions_df' = None
    /\ marketing_spend_df' = None
    /\ UNCHANGED <<base_date, end_date, num_customers, calc, first_run, setup>>

save_all_data ==
    LET op == "save_all_data"
    IN
    \/ /\ Direct
       /\ last' = Returned(op, Cardinality(PresentTables))
       /\ UNCHANGED genVars
    \/ /\ Direct
       /\ last' = Raised(op, Cardinality(PresentTables), "OSError", <<>>)
       /\ UNCHANGED genVars

(* The first column the summary looks up in a frame that has none: the     *)
(* lookup raises KeyError.  <<>> when every lookup finds its column.       *)
SummaryMissingColumn ==
    IF IsEmptyFrame(customers_df) \/ IsEmptyFrame(products_df)
    THEN <<"is_active">>
    ELSE IF IsEmptyFrame(orders_df) THEN <<"total_amount">>
    ELSE IF IsEmptyFrame(web_sessions_df) THEN <<"converted">>
    ELSE IF IsEmptyFrame(marketing_spend_df) THEN <<"spend_amount">>
    ELSE <<>>

print_dataset_summary ==
    LET op == "print_dataset_summary"
    IN
    /\ Direct
    /\ last' = IF SummaryMissingColumn = <<>> THEN Returned(op, 0)
               ELSE Raised(op, 0, "KeyError", SummaryMissingColumn)
    /\ UNCHANGED genVars

(* The last statement, self.print_dataset_summary(), and the return. *)
complete_print_dataset_summary ==
    /\ pc.stage = "print_dataset_summary"
    /\ last' = IF SummaryMissingColumn = <<>>
               THEN Returned("generate_complete_dataset", pc.num_customers)
               ELSE Raised("print_dataset_summary", 0, "KeyError",
                           SummaryMissingColumn)
    /\ pc' = Idle
    /\ UNCHANGED genVars

(* The values of a column, as a set. *)
Column(df, col) == {df.rows[k][col] : k \in 1..Len(df.rows)}

(* child[col].isin(parent[col]).sum() with the number of child rows: one   *)
(* section of report['referential_integrity'].  integrity_percentage is    *)
(* the fraction valid / total * 100, kept as its two terms.                *)
IntegritySection(child, parent, col) ==
    LET valid == Cardinality({k \in 1..Len(child.rows) :
                                 child.rows[k][col] \in Column(parent, col)})
    IN  [valid_references |-> valid,
         total |-> Len(child.rows),
         integrity_percentage |-> <<valid * 100, Len(child.rows)>>]

(* The sections of report['referential_integrity'] that are computed. *)
IntegrityChecks ==
    (IF ~orders_df.isNone /\ ~customers_df.isNone
     THEN {"orders_customers"} ELSE {})
    \cup (IF ~order_items_df.isNone /\ ~products_df.isNone
          THEN {"order_items_products"} ELSE {})

(* The first column the report looks up in a frame that has none.  <<>>    *)
(* when every lookup finds its column.                                     *)
ReportMissingColumn ==
    IF /\ "orders_customers" \in IntegrityChecks
       /\ IsEmptyFrame(orders_df) \/ IsEmptyFrame(customers_df)
    THEN <<"customer_id">>
    ELSE IF /\ "order_items_products" \in IntegrityChecks
            /\ IsEmptyFrame(order_items_df) \/ IsEmptyFrame(products_df)
    THEN <<"product_id">>
    ELSE IF IsEmptyFrame(orders_df) THEN <<"total_amount">>
    ELSE <<>>

(* The report dict: the row count of each table that is not None, the      *)
(* referential-integrity sections, and the names of the business-rule      *)
(* sections.                                                               *)
QualityReport ==
    [tables |-> [name \in PresentTables |-> [row_count |-> Len(Table(name).rows)]],
     referential_integrity |->
         [check \in IntegrityChecks |->
             IF check = "orders_customers"
             THEN IntegritySection(orders_df, customers_df, "customer_id")
             ELSE IntegritySection(order_items_df, products_df, "product_id")],
     business_rules |-> IF orders_df.isNone THEN {} ELSE {"orders"}]

get_data_quality_report ==
    LET op == "get_data_quality_report"
    IN
    /\ Direct
    /\ last' = IF ReportMissingColumn = <<>>
               THEN ReturnedValue(op, 0, QualityReport)
               ELSE Raised(op, 0, "KeyError", ReportMissingColumn)
    /\ UNCHANGED genVars

---------------------------------------------------------------------------

Init ==
    /\ end_date = RunDate
    /\ base_date \in {RunDate - d : d \in {0, MinAccountAgeDays - 1,
                                           MinAccountAgeDays, RunDate}}
    /\ num_customers \in (0 - 1)..MaxCustomers
    /\ customers_df = None
    /\ products_df = None
    /\ orders_df = None
    /\ order_items_df = None
    /\ web_sessions_df = None
    /\ marketing_spend_df = None
    /\ pc = Idle
    /\ first_run = NoRun
    /\ setup = NoSetup
    /\ last = Returned("__init__", num_customers)
    /\ calc = NoCalc

Next ==
    \/ generate_customers
    \/ \E n \in (0 - 1)..MaxProducts : generate_products(n)
    \/ \E n \in (0 - 1)..MaxOrders : generate_orders(n)

Spec == Init /\ [][Next]_vars

---------------------------------------------------------------------------
(* Every method of the generator, called in any order.  A call made while  *)
(* generate_complete_dataset runs is one of its statements.                *)

InitRun ==
    /\ end_date = RunDate
    /\ base_date \in {RunDate - MinAccountAgeDays, RunDate + 1}
    /\ num_customers \in 0..MaxRunCustomers
    /\ customers_df = None
    /\ products_df = None
    /\ orders_df = None
    /\ order_items_df = None
    /\ web_sessions_df = None
    /\ marketing_spend_df = None
    /\ pc = Idle
    /\ first_run = NoRun
    /\ setup = NoSetup
    /\ last = Returned("__init__", num_customers)
    /\ calc = NoCalc

NextRun ==
    \/ generate_customers
    \/ \E n \in 0..MaxProducts : generate_products(n)
    \/ \E n \in 0..MaxOrders : generate_orders(n)
    \/ \E n \in 0..MaxSessions : generate_web_sessions(n)
    \/ generate_marketing_spend
    \/ save_all_data
    \/ print_dataset_summary
    \/ get_data_quality_report
    \/ \E np \in 0..MaxProducts, no \in 0..MaxOrders, ns \in 0..MaxSessions :
          generate_complete_dataset(MaxCustomers, np, no, ns)
    \/ complete_print_dataset_summary

SpecRun == InitRun /\ [][NextRun]_vars

---------------------------------------------------------------------------
(* generate_orders on its own: one call, on every pair of dimension tables *)
(* that generate_customers and generate_products can have left.            *)

InitOrders ==
    /\ end_date = RunDate
    /\ base_date = RunDate - MinAccountAgeDays
    /\ num_customers \in 0..MaxCustomers
    /\ customers_df \in
         {None} \cup (IF num_customers >= 1 THEN CustomerTables(num_customers)
                                            ELSE {DataFrame(<<>>)})
    /\ products_df \in
         {None, DataFrame(<<>>)}
             \cup UNION {ProductTables(m) : m \in 1..MaxCatalogue}
    /\ orders_df = None
    /\ order_items_df = None
    /\ web_sessions_df = None
    /\ marketing_spend_df = None
    /\ pc = Idle
    /\ first_run = NoRun
    /\ setup = NoSetup
    /\ last = IF products_df.isNone
              THEN IF customers_df.isNone
                   THEN Returned("__init__", num_customers)
                   ELSE IF num_customers >= 1
                        THEN Returned("generate_customers", num_customers)
                        ELSE Raised("generate_customers", num_customers,
                                    "AttributeError", <<"customer_segment">>)
              ELSE IF products_df.rows = <<>>
                   THEN Raised("generate_products", 0, "KeyError",
                               <<"category_l1">>)
                   ELSE Returned("generate_products", Len(products_df.rows))
    /\ calc = NoCalc

NextOrders ==
    /\ orders_df.isNone
    /\ last.op # "generate_orders"
    /\ \E n \in 0..MaxBatch : generate_orders(n)

SpecOrders == InitOrders /\ [][NextOrders]_vars

---------------------------------------------------------------------------
(* generate_marketing_spend on its own, for every base date from the first *)
(* day of the model to the day after the run date.                         *)

InitMarketing ==
    /\ end_date = RunDate
    /\ base_date \in 0..(RunDate + 1)
    /\ num_customers \in (0 - 1)..MaxCustomers
    /\ customers_df = None
    /\ products_df = None
    /\ orders_df = None
    /\ order_items_df = None
    /\ web_sessions_df = None
    /\ marketing_spend_df = None
    /\ pc = Idle
    /\ first_run = NoRun
    /\ setup = NoSetup
    /\ last = Returned("__init__", num_customers)
    /\ calc = NoCalc

NextMarketing == generate_marketing_spend

SpecMarketing == InitMarketing /\ [][NextMarketing]_vars

---------------------------------------------------------------------------
(* Two generators built with the same arguments, the random generators     *)
(* seeded alike before each: the first makes its calls, then the second is *)
(* constructed, the same day or the next, and makes the same calls.  The   *)
(* columns the Marketing Spend rows carry here consume no random draw.     *)

(* EcommerceDataGenerator(base_date, num_customers), a second time:        *)
(* end_date is the day of the construction, the tables start as None.  The *)
(* first generator's tables are kept for the comparison.                   *)
construct_again(today) ==
    /\ ~first_run.made
    /\ pc = Idle
    /\ last.op # "__init__"
    /\ first_run' = [made |-> TRUE,
                     end_date |-> end_date,
                     calls |-> last.op,
                     marketing_spend_df |-> marketing_spend_df]
    /\ end_date' = today
    /\ customers_df' = None
    /\ products_df' = None
    /\ orders_df' = None
    /\ order_items_df' = None
    /\ web_sessions_df' = None
    /\ marketing_spend_df' = None
    /\ last' = Returned("__init__", num_customers)
    /\ UNCHANGED <<base_date, num_customers, pc, calc, setup>>

InitTwin ==
    /\ end_date = RunDate
    /\ base_date \in 0..(RunDate + 1)
    /\ num_customers \in (0 - 1)..MaxCustomers
    /\ customers_df = None
    /\ products_df = None
    /\ orders_df = None
    /\ order_items_df = None
    /\ web_sessions_df = None
    /\ marketing_spend_df = None
    /\ pc = Idle
    /\ first_run = NoRun
    /\ setup = NoSetup
    /\ last = Returned("__init__", num_customers)
    /\ calc = NoCalc

NextTwin ==
    \/ generate_marketing_spend
    \/ \E today \in {RunDate, RunDate + 1} : construct_again(today)

SpecTwin == InitTwin /\ [][NextTwin]_vars

---------------------------------------------------------------------------
(* The setup script, setup.py.  A step function's outcome is "True",       *)
(* "False" or "None", the value it returns, or "raise", an Exception.      *)

(* setup_steps of run_setup, by the function each one calls *)
SetupSteps ==
    <<"check_prerequisites", "create_directory_structure",
      "setup_python_environment", "create_env_file",
      "start_database_services", "generate_sample_data",
      "load_data_to_database", "setup_dbt_project",
      "generate_documentation", "validate_setup">>

(* The outcomes a step function can have.  The two lambdas return True;    *)
(* generate_sample_data, load_data_to_database and generate_documentation  *)
(* catch every Exception; validate_setup has no return statement.          *)
StepResults(step) ==
    CASE step \in {"create_directory_structure", "create_env_file"} ->
             {"True", "raise"}
      [] step \in {"generate_sample_data", "load_data_to_database",
                   "generate_documentation"} -> {"True", "False"}
      [] step = "validate_setup" -> {"None"}
      [] OTHER -> {"True", "False", "raise"}

(* The truth value of what a step function returned. *)
StepSucceeded(result) == result = "True"

(* parse_args: the four flags, any of them given or not *)
SetupArgs ==
    [validate_only : BOOLEAN, quick : BOOLEAN, production : BOOLEAN,
     skip_data_generation : BOOLEAN]

(* The sample_data_config main's dispatch leaves: quick_setup and          *)
(* production_setup override it before they call run_setup.                *)
SampleDataConfig(args) ==
    IF args.quick THEN "quick"
    ELSE IF args.production THEN "production"
    ELSE "standard"

(* run_setup going on to the next step whatever the step's outcome. *)
AfterStepGoingOn(result) ==
    LET ran == Append(setup.ran, SetupSteps[setup.step])
        results == Append(setup.results, result)
    IN  IF setup.step = Len(SetupSteps)
        THEN [setup EXCEPT !.at = "returned", !.ran = ran, !.results = results,
                           !.success_message = TRUE,
                           !.returned = Value("True")]
        ELSE [setup EXCEPT !.at = "run_setup", !.ran = ran,
                           !.results = results, !.step = setup.step + 1]

(* run_setup's loop body after step_function() has had its outcome: the    *)
(* return of False on a false value or an Exception, the next step, or     *)
(* after the last step print_success_message and the return of True.       *)
AfterStep(result) ==
    LET ran == Append(setup.ran, SetupSteps[setup.step])
        results == Append(setup.results, result)
    IN  IF ~StepSucceeded(result)
        THEN [setup EXCEPT !.at = "returned", !.ran = ran, !.results = results,
                           !.returned = Value("False")]
        ELSE IF setup.step = Len(SetupSteps)
        THEN [setup EXCEPT !.at = "returned", !.ran = ran, !.results = results,
                           !.success_message = TRUE,
                           !.returned = Value("True")]
        ELSE [setup EXCEPT !.at = "run_setup", !.ran = ran,
                           !.results = results, !.step = setup.step + 1]

(* main up to its dispatch: --validate-only calls validate_setup, anything *)
(* else run_setup, straight or through quick_setup or production_setup.    *)
main(args) ==
    /\ setup = NoSetup
    /\ \/ /\ args.validate_only
          /\ setup' = [at |-> "returned", args |-> args,
                       config |-> "standard", step |-> Len(SetupSteps),
                       ran |-> <<"validate_setup">>, results |-> <<"None">>,
                       services |-> "none", attempts |-> 0,
                       success_message |-> FALSE,
                       returned |-> Value("None"), exit |-> NoValue]
       \/ /\ ~args.validate_only
          /\ setup' = [at |-> "run_setup", args |-> args,
                       config |-> SampleDataConfig(args), step |-> 1,
                       ran |-> <<>>, results |-> <<>>,
                       services |-> "none", attempts |-> 0,
                       success_message |-> FALSE,
                       returned |-> NoValue, exit |-> NoValue]
    /\ UNCHANGED <<base_date, end_date, num_customers, customers_df,
                   products_df, orders_df, order_items_df, web_sessions_df,
                   marketing_spend_df, pc, first_run, last, calc>>

(* One turn of run_setup's loop, for a step other than                     *)
(* start_database_services.                                                *)
run_step ==
    /\ setup.at = "run_setup"
    /\ SetupSteps[setup.step] # "start_database_services"
    /\ \E result \in StepResults(SetupSteps[setup.step]) :
          setup' = AfterStep(result)
    /\ UNCHANGED <<base_date, end_date, num_customers, customers_df,
                   products_df, orders_df, order_items_df, web_sessions_df,
                   marketing_spend_df, pc, first_run, last, calc>>

(* The probe loop going round once more than max_attempts. *)
ProbeLoopContinuesOnceMore(attempt) == attempt <= MaxAttempts

(* for attempt in range(max_attempts): whether there is a turn numbered    *)
(* attempt, counted from 0.                                                *)
ProbeLoopContinues(attempt) == attempt < MaxAttempts

(* start_database_services up to its probe loop: the docker-compose.yml    *)
(* test and docker-compose up.                                             *)
start_database_services ==
    /\ setup.at = "run_setup"
    /\ SetupSteps[setup.step] = "start_database_services"
    /\ \/ \* docker-compose.yml is missing
          setup' = [AfterStep("False") EXCEPT !.services = "no_file"]
       \/ \* docker-compose up returns a non-zero code
          setup' = [AfterStep("False") EXCEPT !.services = "up_failed"]
       \/ \* subprocess.run cannot start docker-compose
          setup' = [AfterStep("raise") EXCEPT !.services = "up_raised"]
       \/ \* docker-compose up returns 0
          IF ProbeLoopContinues(0)
          THEN setup' = [setup EXCEPT !.at = "services", !.services = "probing"]
          ELSE setup' = [AfterStep("False") EXCEPT !.services = "timeout"]
    /\ UNCHANGED <<base_date, end_date, num_customers, customers_df,
                   products_df, orders_df, order_items_df, web_sessions_df,
                   marketing_spend_df, pc, first_run, last, calc>>

(* One turn of the probe loop: pg_isready, then the return of True or the  *)
(* sleep; after the last turn the return of False.                         *)
probe_database ==
    /\ setup.at = "services"
    /\ \/ \* pg_isready returns 0
          setup' = [AfterStep("True") EXCEPT !.services = "ready",
                                             !.attempts = setup.attempts + 1]
       \/ \* pg_isready returns a non-zero code
          IF ProbeLoopContinues(setup.attempts + 1)
          THEN setup' = [setup EXCEPT !.attempts = setup.attempts + 1]
          ELSE setup' = [AfterStep("False") EXCEPT
                             !.services = "timeout",
                             !.attempts = setup.attempts + 1]
    /\ UNCHANGED <<base_date, end_date, num_customers, customers_df,
                   products_df, orders_df, order_items_df, web_sessions_df,
                   marketing_spend_df, pc, first_run, last, calc>>

(* main after the dispatch: if success, the success line and sys.exit(0),  *)
(* else the failure line and sys.exit(1).                                  *)
main_report ==
    /\ setup.at = "returned"
    /\ setup' = [setup EXCEPT
                     !.at = "exited",
                     !.exit = IF StepSucceeded(setup.returned[1])
                              THEN Value(0) ELSE Value(1)]
    /\ UNCHANGED <<base_date, end_date, num_customers, customers_df,
                   products_df, orders_df, order_items_df, web_sessions_df,
                   marketing_spend_df, pc, first_run, last, calc>>

InitSetup ==
    /\ end_date = RunDate
    /\ base_date = RunDate - MinAccountAgeDays
    /\ num_customers = MaxCustomers
    /\ customers_df = None
    /\ products_df = None
    /\ orders_df = None
    /\ order_items_df = None
    /\ web_sessions_df = None
    /\ marketing_spend_df = None
    /\ pc = Idle
    /\ first_run = NoRun
    /\ setup = NoSetup
    /\ last = Returned("__init__", num_customers)
    /\ calc = NoCalc

NextSetup ==
    \/ \E args \in SetupArgs : main(args)
    \/ run_step
    \/ start_database_services
    \/ probe_database
    \/ main_report

SpecSetup == InitSetup /\ [][NextSetup]_vars

(* The script's process is scheduled until it exits: a step that can be    *)
(* taken is taken.                                                         *)
SpecSetupLive == SpecSetup /\ WF_vars(NextSetup)

---------------------------------------------------------------------------
(* Row arithmetic.  Prices and amounts are integer cents; a uniform draw   *)
(* of money is in hundredths of a cent, a ratio (margin, discount percent) *)
(* in ten-thousandths, margin_percent in hundredths of a percent.  TLC's   *)
(* integers are 32 bits wide: the units keep every product below 2^31.     *)

(* round(x, 2) of x = num / den, in the unit of the result: to the nearest *)
(* unit, a tie to the even one.                                            *)
RoundHalfEven(num, den) ==
    LET q == num \div den
        r == num % den
    IN  IF 2 * r < den THEN q
        ELSE IF 2 * r > den THEN q + 1
        ELSE IF q % 2 = 0 THEN q ELSE q + 1

(* Sample points of random.uniform(lo, hi), both ends among them. *)
UniformPoints(lo, hi) == {lo + (k * (hi - lo)) \div MaxSteps : k \in 0..MaxSteps}

Categories ==
    {"Electronics", "Clothing", "Home & Garden", "Books", "Sports",
     "Beauty & Health", "Toys & Games", "Automotive", "Food & Beverages"}

(* price_ranges, in cents *)
PriceRange(category) ==
    CASE category = "Electronics" -> <<5000, 250000>>
      [] category = "Clothing" -> <<1500, 40000>>
      [] category = "Home & Garden" -> <<2500, 80000>>
      [] category = "Books" -> <<1000, 6000>>
      [] category = "Sports" -> <<2000, 50000>>
      [] category = "Beauty & Health" -> <<800, 15000>>
      [] category = "Toys & Games" -> <<1500, 20000>>
      [] category = "Automotive" -> <<3000, 120000>>
      [] category = "Food & Beverages" -> <<300, 8000>>
      [] OTHER -> <<1000, 10000>>

(* margin_ranges, in ten-thousandths *)
MarginRange(category) ==
    CASE category = "Electronics" -> <<1500, 3500>>
      [] category = "Clothing" -> <<4000, 6500>>
      [] category = "Home & Garden" -> <<2500, 4500>>
      [] category = "Books" -> <<2000, 4000>>
      [] category = "Sports" -> <<3000, 5000>>
      [] category = "Beauty & Health" -> <<4500, 7000>>
      [] category = "Toys & Games" -> <<3500, 5500>>
      [] category = "Automotive" -> <<2000, 4000>>
      [] category = "Food & Beverages" -> <<2500, 4500>>
      [] OTHER -> <<2500, 4500>>

(* retail_price = round(random.uniform(min_price, max_price), 2) *)
RetailPrice(price_draw) == RoundHalfEven(price_draw, 100)

(* The margin added to the price instead of taken off it:                 *)
(* round(retail_price * (1 + margin), 2).                                  *)
CostMarkedUp(retail_price, margin) ==
    retail_price + RoundHalfEven(retail_price * margin, 10 ^ 4)

(* cost = round(retail_price * (1 - margin), 2) *)
Cost(retail_price, margin) ==
    RoundHalfEven(retail_price * ((10 ^ 4) - margin), 10 ^ 4)

(* 'margin_percent': round(margin * 100, 2) *)
MarginPercent(margin) == RoundHalfEven(margin * 100, 100)

(* The priced columns of one product dict. *)
PricedProduct(category, price_draw, margin) ==
    [category_l1 |-> category,
     retail_price |-> RetailPrice(price_draw),
     cost |-> Cost(RetailPrice(price_draw), margin),
     margin_percent |-> MarginPercent(margin)]

Countries ==
    {"Portugal", "Spain", "France", "Germany", "Italy", "United Kingdom"}

(* customer_info.get('country', 'Portugal') *)
CustomerCountry(customer_info) ==
    IF "country" \in DOMAIN customer_info THEN customer_info.country
    ELSE "Portugal"

(* The keys of tax_rates. *)
TaxRateKeys ==
    {"Portugal", "Spain", "France", "Germany", "Italy", "United Kingdom"}

(* The default rate whatever the country. *)
TaxRateDefaultOnly(country) == 23

(* tax_rates.get(customer_country, 0.23), in percent *)
TaxRate(country) ==
    CASE country = "Portugal" -> 23
      [] country = "Spain" -> 21
      [] country = "France" -> 20
      [] country = "Germany" -> 19
      [] country = "Italy" -> 22
      [] country = "United Kingdom" -> 20
      [] OTHER -> 23

RECURSIVE SumOver(_, _)
SumOver(rows, col) ==
    IF rows = <<>> THEN 0
    ELSE rows[1][col] + SumOver(Tail(rows), col)

(* The line's cost taken for one unit whatever the quantity. *)
ItemAmountsCostOfOneUnit(product, quantity) ==
    [quantity |-> quantity,
     unit_price |-> product.retail_price,
     line_total |-> product.retail_price * quantity,
     cost_per_unit |-> product.cost,
     line_cost |-> product.cost]

(* One order_item dict's amounts. *)
ItemAmounts(product, quantity) ==
    [quantity |-> quantity,
     unit_price |-> product.retail_price,
     line_total |-> product.retail_price * quantity,
     cost_per_unit |-> product.cost,
     line_cost |-> product.cost * quantity]

(* discount_amount: 0, or round(subtotal * discount_percent, 2) when       *)
(* random.random() < discount_probability                                  *)
DiscountAmount(subtotal, applied, discount_percent) ==
    IF applied THEN RoundHalfEven(subtotal * discount_percent, 10 ^ 4) ELSE 0

(* Shipping free from 50.00 on. *)
ShippingCostFreeFromFifty(subtotal, shipping_draw) ==
    IF subtotal >= 5000 THEN 0 ELSE RoundHalfEven(shipping_draw, 100)

(* shipping_cost: free above 50.00, else round(random.uniform(3.99, 9.99), 2) *)
ShippingCost(subtotal, shipping_draw) ==
    IF subtotal > 5000 THEN 0 ELSE RoundHalfEven(shipping_draw, 100)

(* tax_amount = round((subtotal - discount_amount) * tax_rate, 2) *)
TaxAmount(subtotal, discount_amount, country) ==
    RoundHalfEven((subtotal - discount_amount) * TaxRate(country), 100)

(* The total with the shipping cost left out. *)
TotalAmountWithoutShipping(subtotal, discount_amount, shipping_cost, tax_amount) ==
    subtotal - discount_amount + tax_amount

(* total_amount = subtotal - discount_amount + shipping_cost + tax_amount *)
TotalAmount(subtotal, discount_amount, shipping_cost, tax_amount) ==
    subtotal - discount_amount + shipping_cost + tax_amount

(* The amounts of one order and of its items, from the iteration's draws. *)
OrderAmounts(d) ==
    LET items == [j \in 1..Len(d.selected_products) |->
                     ItemAmounts(d.selected_products[j], d.quantities[j])]
        subtotal == SumOver(items, "line_total")
        total_items == SumOver(items, "quantity")
        discount_amount == DiscountAmount(subtotal, d.discount_applied,
                                          d.discount_percent)
        shipping_cost == ShippingCost(subtotal, d.shipping_draw)
        customer_country == CustomerCountry(d.customer_info)
        tax_amount == TaxAmount(subtotal, discount_amount, customer_country)
        total_amount == TotalAmount(subtotal, discount_amount, shipping_cost,
                                    tax_amount)
    IN  [items |-> items,
         country |-> customer_country,
         order |-> [total_items |-> total_items,
                    subtotal |-> RoundHalfEven(subtotal, 1),
                    discount_amount |-> discount_amount,
                    tax_amount |-> tax_amount,
                    shipping_cost |-> shipping_cost,
                    total_amount |-> RoundHalfEven(total_amount, 1)]]

(* The row test behind the report's positive_amounts count:                *)
(* orders_df['total_amount'] > 0                                           *)
PositiveAmount(order) == order.total_amount > 0

(* Products an order line can name: the cheapest product there is, two     *)
(* around the free-shipping threshold for a quantity of two, and the       *)
(* dearest.                                                                *)
LineProducts ==
    {PricedProduct("Food & Beverages", 30000, 4500),
     PricedProduct("Books", 249900, 2000),
     PricedProduct("Books", 250000, 3333),
     PricedProduct("Electronics", 25000000, 1500)}

(* Sequences of n rows of a set, no row twice. *)
Arrangements(S, n) ==
    {f \in [1..n -> S] : \A a, b \in 1..n : a # b => f[a] # f[b]}

(* The truth value Python gives an optional number: None and 0 are false. *)
Truthy(x) == x # NoValue /\ x[1] # 0

(* The words of a channel name.  No name has the letters Ads anywhere but  *)
(* as its last word.                                                       *)
ChannelWords(channel) ==
    CASE channel = "Google Ads" -> <<"Google", "Ads">>
      [] channel = "Facebook Ads" -> <<"Facebook", "Ads">>
      [] channel = "Instagram Ads" -> <<"Instagram", "Ads">>
      [] channel = "TikTok Ads" -> <<"TikTok", "Ads">>
      [] channel = "Email Marketing" -> <<"Email", "Marketing">>
      [] channel = "SEO Organic" -> <<"SEO", "Organic">>
      [] channel = "Influencer Marketing" -> <<"Influencer", "Marketing">>
      [] channel = "TV Advertising" -> <<"TV", "Advertising">>
      [] channel = "Radio" -> <<"Radio">>
      [] channel = "Affiliate Marketing" -> <<"Affiliate", "Marketing">>
      [] channel = "Direct Mail" -> <<"Direct", "Mail">>

(* The test written as 'Ad' in channel: Advertising matches too. *)
ContainsAd(channel) ==
    \E k \in 1..Len(ChannelWords(channel)) :
        ChannelWords(channel)[k] \in {"Ads", "Advertising"}

(* 'Ads' in channel *)
ContainsAds(channel) ==
    \E k \in 1..Len(ChannelWords(channel)) : ChannelWords(channel)[k] = "Ads"

(* base_daily_budgets: the range of each channel's uniform draw, in euros *)
BaseDailyBudgetRange(channel) ==
    CASE channel = "Google Ads" -> <<500, 2000>>
      [] channel = "Facebook Ads" -> <<300, 1500>>
      [] channel = "Instagram Ads" -> <<200, 1000>>
      [] channel = "TikTok Ads" -> <<100, 800>>
      [] channel = "Email Marketing" -> <<50, 300>>
      [] channel = "SEO Organic" -> <<200, 800>>
      [] channel = "Influencer Marketing" -> <<1000, 5000>>
      [] channel = "TV Advertising" -> <<2000, 10000>>
      [] channel = "Radio" -> <<300, 1500>>
      [] channel = "Affiliate Marketing" -> <<400, 2000>>
      [] channel = "Direct Mail" -> <<500, 2500>>
      [] OTHER -> <<500, 500>>

(* The seasonal adjustment of the budget, in tenths. *)
SeasonalFactor(month) ==
    IF month \in {11, 12} THEN 15
    ELSE IF month \in {1, 2} THEN 7
    ELSE 10

(* The weekend adjustment of the digital channels, in tenths. *)
WeekendFactor(channel, weekday) ==
    IF channel \in {"Google Ads", "Facebook Ads", "Instagram Ads", "TikTok Ads"}
       /\ weekday >= 5
    THEN 8 ELSE 10

(* daily_budget in cents, from a draw of whole euros: the two adjustments  *)
(* leave a whole number of cents.                                          *)
DailyBudget(channel, budget_draw, month, weekday) ==
    (((budget_draw * 100 * SeasonalFactor(month)) \div 10)
        * WeekendFactor(channel, weekday)) \div 10

(* The metric columns of one marketing_record dict.  The draws of          *)
(* impressions per euro are whole numbers, the rates ten-thousandths.      *)
MarketingMetrics(d) ==
    LET daily_budget == DailyBudget(d.channel, d.budget_draw, d.month, d.weekday)
        paid == ContainsAds(d.channel)
        impressions ==
            IF paid THEN Value((daily_budget * d.impressions_draw) \div 100)
            ELSE NoValue
        clicks ==
            IF paid THEN Value((impressions[1] * d.ctr) \div (10 ^ 4))
            ELSE NoValue
        \* daily_budget / clicks or 0, as a fraction's two terms; or None
        cpc ==
            IF paid
            THEN IF clicks[1] > 0 THEN Value(<<daily_budget, clicks[1]>>)
                 ELSE Value(<<0, 1>>)
            ELSE NoValue
        conversions ==
            IF paid THEN (clicks[1] * d.conversion_draw) \div (10 ^ 4)
            ELSE (daily_budget * d.conversion_draw) \div (100 * (10 ^ 4))
    IN  [channel |-> d.channel,
         spend_amount |-> RoundHalfEven(daily_budget, 1),
         impressions |-> impressions,
         clicks |-> clicks,
         conversions |-> conversions,
         cpc |-> IF cpc # NoValue /\ cpc[1][1] # 0
                 THEN Value(RoundHalfEven(cpc[1][1], cpc[1][2]))
                 ELSE NoValue,
         cpm |-> IF Truthy(impressions)
                 THEN Value(RoundHalfEven(daily_budget * 1000, impressions[1]))
                 ELSE NoValue,
         cpa |-> IF conversions > 0
                 THEN Value(RoundHalfEven(daily_budget, conversions))
                 ELSE NoValue,
         conversion_rate |->
             IF Truthy(clicks) /\ clicks[1] > 0
             THEN Value(RoundHalfEven(conversions * (10 ^ 4), clicks[1]))
             ELSE NoValue]

(* The second status bucket reaching through day three. *)
OrderStatusesThroughDayThree(days_since_order) ==
    IF days_since_order < 1 THEN {"pending"}
    ELSE IF days_since_order <= 3 THEN {"pending", "processing"}
    ELSE IF days_since_order < 7 THEN {"processing", "shipped"}
    ELSE {"delivered", "cancelled", "returned"}

(* The statuses the if/elif chain on days_since_order can choose from. *)
OrderStatuses(days_since_order) ==
    IF days_since_order < 1 THEN {"pending"}
    ELSE IF days_since_order < 3 THEN {"pending", "processing"}
    ELSE IF days_since_order < 7 THEN {"processing", "shipped"}
    ELSE {"delivered", "cancelled", "returned"}

(* The least, the middle and the greatest value of random.uniform(lo, hi). *)
EndsAndMiddle(lo, hi) == {lo, (lo + hi) \div 2, hi}

(* The metric lines of one turn of generate_marketing_spend's for loop. *)
measure_spend ==
    /\ calc.kind = "spend_draw"
    /\ calc' = [kind |-> "spend", draws |-> calc, record |-> MarketingMetrics(calc)]
    /\ UNCHANGED <<base_date, end_date, num_customers, customers_df,
                   products_df, orders_df, order_items_df, web_sessions_df,
                   marketing_spend_df, pc, first_run, last, setup>>

(* The pricing lines of one iteration of generate_products. *)
price_product ==
    /\ calc.kind = "product_draw"
    /\ calc' = [kind |-> "product",
                row |-> PricedProduct(calc.category, calc.price_draw, calc.margin)]
    /\ UNCHANGED <<base_date, end_date, num_customers, customers_df,
                   products_df, orders_df, order_items_df, web_sessions_df,
                   marketing_spend_df, pc, first_run, last, setup>>

(* The amount lines of one iteration of generate_orders. *)
price_order ==
    /\ calc.kind = "order_draw"
    /\ calc' = [kind |-> "order", draws |-> calc, amounts |-> OrderAmounts(calc)]
    /\ UNCHANGED <<base_date, end_date, num_customers, customers_df,
                   products_df, orders_df, order_items_df, web_sessions_df,
                   marketing_spend_df, pc, first_run, last, setup>>

(* segment, from segment_rand in hundredths *)
CustomerSegment(segment_rand) ==
    IF segment_rand < 10 THEN "VIP"
    ELSE IF segment_rand < 70 THEN "Regular"
    ELSE "New"

(* The upper end of the draw of days from created_at to last_activity. *)
MaxActivityDays(segment) ==
    IF segment = "VIP" THEN 30
    ELSE IF segment = "Regular" THEN 90
    ELSE 180

(* last_activity counted back from created_at. *)
CustomerDatesActivityBefore(d) ==
    LET created_at == base_date + d.created_offset
    IN  [customer_segment |-> CustomerSegment(d.segment_rand),
         created_at |-> created_at,
         updated_at |-> created_at - d.activity_offset]

(* The segment and the lifecycle dates of one customer dict: created_at,   *)
(* and last_activity stored as updated_at.                                 *)
CustomerDates(d) ==
    LET created_at == base_date + d.created_offset
        last_activity == created_at + d.activity_offset
    IN  [customer_segment |-> CustomerSegment(d.segment_rand),
         created_at |-> created_at,
         updated_at |-> last_activity]

(* The segment and date lines of one iteration of generate_customers. *)
date_customer ==
    /\ calc.kind = "customer_draw"
    /\ calc' = [kind |-> "customer", draws |-> calc, row |-> CustomerDates(calc)]
    /\ UNCHANGED <<base_date, end_date, num_customers, customers_df,
                   products_df, orders_df, order_items_df, web_sessions_df,
                   marketing_spend_df, pc, first_run, last, setup>>

(* datetime.combine(date, time), in seconds since midnight of day 0 *)
Combine(date, time) == date * SecondsPerDay + time

(* The date a datetime falls on. *)
DateOf(datetime) == datetime \div SecondsPerDay

(* 'created_at' and 'updated_at' of one order dict: each from its own      *)
(* fake.time_object(), updated_at with timedelta(hours=random.randint(1,   *)
(* 72)) added.                                                             *)
OrderTimestamps(d) ==
    [order_date |-> d.order_date,
     created_at |-> Combine(d.order_date, d.created_time),
     updated_at |-> Combine(d.order_date, d.updated_time) + d.hours * 3600]

(* The timestamp lines of one iteration of generate_orders. *)
stamp_order ==
    /\ calc.kind = "stamp_draw"
    /\ calc' = [kind |-> "stamp", draws |-> calc, row |-> OrderTimestamps(calc)]
    /\ UNCHANGED <<base_date, end_date, num_customers, customers_df,
                   products_df, orders_df, order_items_df, web_sessions_df,
                   marketing_spend_df, pc, first_run, last, setup>>

(* The status lines of one iteration of generate_orders: the days from the *)
(* order's date to the day datetime.now() gives there, then the choice.    *)
set_status ==
    /\ calc.kind = "status_draw"
    /\ LET days_since_order == calc.today - calc.order_date
       IN  \E status \in OrderStatuses(days_since_order) :
             calc' = [kind |-> "status", order_date |-> calc.order_date,
                      days_since_order |-> days_since_order,
                      order_status |-> status]
    /\ UNCHANGED <<base_date, end_date, num_customers, customers_df,
                   products_df, orders_df, order_items_df, web_sessions_df,
                   marketing_spend_df, pc, first_run, last, setup>>

InitPricing ==
    /\ end_date = RunDate
    /\ base_date \in {RunDate - MinAccountAgeDays - k : k \in 0..MaxSpareDays}
    /\ num_customers = MaxCustomers
    /\ customers_df = None
    /\ products_df = None
    /\ orders_df = None
    /\ order_items_df = None
    /\ web_sessions_df = None
    /\ marketing_spend_df = None
    /\ pc = Idle
    /\ first_run = NoRun
    /\ setup = NoSetup
    /\ last = Returned("__init__", num_customers)
    /\ \/ \* the draws of one iteration of generate_products
          \E c \in Categories :
          \E p \in UniformPoints(100 * PriceRange(c)[1], 100 * PriceRange(c)[2]),
             m \in UniformPoints(MarginRange(c)[1], MarginRange(c)[2]) :
            calc = [kind |-> "product_draw", category |-> c, price_draw |-> p,
                    margin |-> m]
       \/ \* the draws of one iteration of generate_orders that its amounts
          \* read
          \E n \in 1..MaxLines :
          \E sel \in Arrangements(LineProducts, n), qs \in [1..n -> 1..3],
             da \in BOOLEAN, dp \in {500, 1234, 2500},
             sh \in {39900, 69950, 99900}, co \in Countries :
            calc = [kind |-> "order_draw", selected_products |-> sel,
                    quantities |-> qs, discount_applied |-> da,
                    discount_percent |-> dp, shipping_draw |-> sh,
                    customer_info |-> [country |-> co]]
       \/ \* the draws of one turn of generate_marketing_spend's for loop,
          \* with the month and the weekday of its day
          \E k \in 1..Len(MarketingChannels), mo \in 1..12, wd \in 0..6 :
          \E b \in EndsAndMiddle(BaseDailyBudgetRange(MarketingChannels[k])[1],
                                 BaseDailyBudgetRange(MarketingChannels[k])[2]) :
            IF ContainsAds(MarketingChannels[k])
            THEN \E im \in EndsAndMiddle(100, 500), ct \in EndsAndMiddle(100, 500),
                    cv \in EndsAndMiddle(200, 1500) :
                   calc = [kind |-> "spend_draw", channel |-> MarketingChannels[k],
                           month |-> mo, weekday |-> wd, budget_draw |-> b,
                           impressions_draw |-> im, ctr |-> ct,
                           conversion_draw |-> cv]
            ELSE \E cv \in EndsAndMiddle(100, 500) :
                   calc = [kind |-> "spend_draw", channel |-> MarketingChannels[k],
                           month |-> mo, weekday |-> wd, budget_draw |-> b,
                           conversion_draw |-> cv]
       \/ \* the order_date drawn by one iteration of generate_orders, and
          \* the day the iteration's datetime.now() falls on: the day of
          \* construction or, past midnight, the next
          \E od \in base_date..end_date, today \in {end_date, end_date + 1} :
            calc = [kind |-> "status_draw", order_date |-> od, today |-> today]
       \/ \* the draws of one iteration of generate_customers: segment_rand
          \* in hundredths, the days from base_date to created_at and from
          \* created_at to last_activity
          \E sr \in {0, 9, 10, 69, 70, 99},
             co \in 0..(end_date - base_date - MinAccountAgeDays) :
          \E ao \in EndsAndMiddle(0, MaxActivityDays(CustomerSegment(sr))) :
            calc = [kind |-> "customer_draw", segment_rand |-> sr,
                    created_offset |-> co, activity_offset |-> ao]
       \/ \* the order_date, the two fake.time_object() draws, in seconds
          \* since midnight, and the hours drawn by one iteration of
          \* generate_orders
          \E od \in base_date..end_date,
             ct \in EndsAndMiddle(0, SecondsPerDay - 1),
             ut \in EndsAndMiddle(0, SecondsPerDay - 1),
             h \in EndsAndMiddle(1, 72) :
            calc = [kind |-> "stamp_draw", order_date |-> od,
                    created_time |-> ct, updated_time |-> ut, hours |-> h]
    /\ \* the draws that read no date are taken on the least date range
       calc.kind \in {"product_draw", "order_draw", "spend_draw"} =>
           base_date = RunDate - MinAccountAgeDays

NextPricing ==
    \/ price_product
    \/ price_order
    \/ measure_spend
    \/ set_status
    \/ date_customer
    \/ stamp_order

SpecPricing == InitPricing /\ [][NextPricing]_vars

---------------------------------------------------------------------------
(* Properties. *)

Range(seq) == {seq[k] : k \in 1..Len(seq)}

GenerateOps == {"generate_customers", "generate_products", "generate_orders"}

(* The last call was op and it returned. *)
ReturnedFrom(op) == last.op = op /\ last.exc = "none"

(* The number of rows of a table whose column col holds v. *)
Matches(df, col, v) == Cardinality({k \in 1..Len(df.rows) : df.rows[k][col] = v})

(* The items of the order with this id. *)
ItemsOfOrder(order_id) ==
    SelectSeq(order_items_df.rows, LAMBDA r : r.order_id = order_id)

(* C1: a generate_orders call made while customers_df or products_df is    *)
(* None raises a ValueError whose message names each missing dimension,    *)
(* and leaves orders_df and order_items_df as they were.                   *)
C1_OrdersBeforeDimensionsFails ==
    [][(last'.op = "generate_orders"
            /\ (customers_df.isNone \/ products_df.isNone))
        => /\ last'.exc = "ValueError"
           /\ customers_df.isNone => "customers" \in Range(last'.msg)
           /\ products_df.isNone => "products" \in Range(last'.msg)
           /\ orders_df' = orders_df
           /\ order_items_df' = order_items_df]_vars

(* generate_orders has been called with Products generated and Customers   *)
(* not, and has raised.                                                    *)
C1_Witness ==
    /\ last.op = "generate_orders"
    /\ last.exc = "ValueError"
    /\ customers_df.isNone
    /\ ~products_df.isNone
    /\ orders_df.isNone /\ order_items_df.isNone

(* C2: when generate_orders has returned, every order item's order_id is   *)
(* the id of exactly one row of Orders and its product_id the id of        *)
(* exactly one row of Products.                                            *)
C2_ItemsReferenceOneOrderOneProduct ==
    ReturnedFrom("generate_orders") =>
        \A k \in 1..Len(order_items_df.rows) :
            /\ Matches(orders_df, "order_id", order_items_df.rows[k].order_id) = 1
            /\ Matches(products_df, "product_id",
                       order_items_df.rows[k].product_id) = 1

(* Two orders have been generated, with three items or more. *)
C2_Witness ==
    /\ ReturnedFrom("generate_orders")
    /\ Len(orders_df.rows) = 2
    /\ Len(order_items_df.rows) >= 3
    /\ Len(products_df.rows) >= 3

(* C3: when generate_orders has returned, every order's customer_id is the *)
(* id of exactly one row of Customers, and that row has is_active = True.  *)
C3_OrdersReferenceOneActiveCustomer ==
    ReturnedFrom("generate_orders") =>
        \A k \in 1..Len(orders_df.rows) :
            /\ Matches(customers_df, "customer_id", orders_df.rows[k].customer_id) = 1
            /\ \A c \in 1..Len(customers_df.rows) :
                 customers_df.rows[c].customer_id = orders_df.rows[k].customer_id
                     => customers_df.rows[c].is_active

(* Orders have been generated from a Customers table that holds an         *)
(* inactive customer besides the active one.                               *)
C3_Witness ==
    /\ ReturnedFrom("generate_orders")
    /\ Len(orders_df.rows) >= 1
    /\ \E c \in 1..Len(customers_df.rows) : ~customers_df.rows[c].is_active

(* C4: Orders and Order Items are assigned together (both None, or both    *)
(* of the same call: the order ids of the items are those of the orders);  *)
(* when generate_orders has returned every order has 1 to 5 items, at most *)
(* 4 for a Regular and 3 for a New customer, of pairwise distinct          *)
(* products.                                                               *)
C4_ItemsPerOrder ==
    /\ orders_df.isNone <=> order_items_df.isNone
    /\ {order_items_df.rows[k].order_id : k \in 1..Len(order_items_df.rows)}
         = {orders_df.rows[k].order_id : k \in 1..Len(orders_df.rows)}
    /\ ReturnedFrom("generate_orders") =>
         \A k \in 1..Len(orders_df.rows) :
            LET items == ItemsOfOrder(orders_df.rows[k].order_id)
                segment == CustomerInfo(orders_df.rows[k].customer_id).customer_segment
            IN  /\ Len(items) >= 1
                /\ Len(items) <= 5
                /\ segment = "Regular" => Len(items) <= 4
                /\ segment = "New" => Len(items) <= 3
                /\ \A a, b \in 1..Len(items) :
                     a # b => items[a].product_id # items[b].product_id

(* A VIP customer's order of five items, beside an order of one item, from *)
(* a catalogue of six active products.                                     *)
C4_Witness ==
    /\ ReturnedFrom("generate_orders")
    /\ Len(ActiveProducts) = 6
    /\ \E k \in 1..Len(orders_df.rows) :
         /\ Len(ItemsOfOrder(orders_df.rows[k].order_id)) = 5
         /\ CustomerInfo(orders_df.rows[k].customer_id).customer_segment = "VIP"
    /\ \E k \in 1..Len(orders_df.rows) :
         Len(ItemsOfOrder(orders_df.rows[k].order_id)) = 1

(* C5: every order's stored total_amount is its stored subtotal less its   *)
(* discount_amount plus its shipping_cost and tax_amount, rounded to       *)
(* cents.                                                                  *)
C5_TotalIsSumOfStoredFields ==
    calc.kind = "order" =>
        LET o == calc.amounts.order
        IN  o.total_amount =
                RoundHalfEven(o.subtotal - o.discount_amount + o.shipping_cost
                                  + o.tax_amount, 1)

(* An order of two lines with a discount, a shipping cost and tax. *)
C5_Witness ==
    /\ calc.kind = "order"
    /\ Len(calc.amounts.items) = 2
    /\ calc.amounts.order.discount_amount > 0
    /\ calc.amounts.order.shipping_cost > 0
    /\ calc.amounts.order.tax_amount > 0
    /\ calc.amounts.order.total_amount > calc.amounts.order.subtotal

(* C6: every product has cost < retail_price and 0 < margin_percent < 100. *)
C6_CostBelowPrice ==
    calc.kind = "product" =>
        /\ calc.row.cost < calc.row.retail_price
        /\ 0 < calc.row.margin_percent
        /\ calc.row.margin_percent < 100 * 100

(* The cheapest product of the catalogue (3.00) at the least margin of its *)
(* category.                                                               *)
C6_Witness ==
    /\ calc.kind = "product"
    /\ calc.row.category_l1 = "Food & Beverages"
    /\ calc.row.retail_price = 300
    /\ calc.row.margin_percent = 2500
    /\ calc.row.cost = 225

(* The text CUST_00000001 is made of: the prefix and the eight decimal     *)
(* digits of i, most significant first.                                    *)
EightDigitId(prefix, i) ==
    <<prefix>> \o [k \in 1..8 |-> DigitChar((i \div (10 ^ (8 - k))) % 10)]

(* C7: when generate_customers has returned the Customers table has        *)
(* num_customers rows, row i with the id CUST_ and i zero-padded to eight  *)
(* digits; when generate_products(M) has returned the Products table has M *)
(* rows, row i with the id PROD_ and i zero-padded; and no table ever      *)
(* holds an identifier twice.                                              *)
C7_SequentialIds ==
    /\ ReturnedFrom("generate_customers") =>
         /\ Len(customers_df.rows) = num_customers
         /\ \A i \in 1..num_customers :
              customers_df.rows[i].customer_id = EightDigitId("CUST_", i)
    /\ ReturnedFrom("generate_products") =>
         /\ Len(products_df.rows) = last.arg
         /\ \A i \in 1..last.arg :
              products_df.rows[i].product_id = EightDigitId("PROD_", i)
    /\ \A i, j \in 1..Len(customers_df.rows) :
         i # j => customers_df.rows[i].customer_id # customers_df.rows[j].customer_id
    /\ \A i, j \in 1..Len(products_df.rows) :
         i # j => products_df.rows[i].product_id # products_df.rows[j].product_id

(* generate_products(2) has returned after generate_customers built two    *)
(* customers.                                                              *)
C7_Witness ==
    /\ ReturnedFrom("generate_products")
    /\ last.arg = 2
    /\ Len(products_df.rows) = 2
    /\ num_customers = 2
    /\ Len(customers_df.rows) = 2

(* C8: a generation call with a count <= 0 raises an invalid-argument      *)
(* error (ValueError) and leaves every table as it was.                    *)
C8_NonPositiveCountRejected ==
    [][(last'.op \in GenerateOps /\ last'.arg <= 0 /\ last' # last)
        => /\ last'.exc = "ValueError"
           /\ UNCHANGED <<customers_df, products_df, orders_df, order_items_df>>]_vars

(* C9: generate_customers and generate_products return whenever their      *)
(* count is positive and the base date is not later than the run date.     *)
C9_DimensionsNeverFail ==
    (/\ last.op \in {"generate_customers", "generate_products"}
     /\ last.arg >= 1
     /\ base_date <= end_date)
        => last.exc = "none"

(* C10: a generate_* call that raises leaves the table it produces None or *)
(* as it was before the call, and one that returns leaves it with the      *)
(* requested number of rows.                                               *)
C10_NoPartialTable ==
    [][/\ (last' # last /\ last'.op = "generate_customers" /\ last'.exc # "none")
            => (customers_df'.isNone \/ customers_df' = customers_df)
       /\ (last' # last /\ last'.op = "generate_products" /\ last'.exc # "none")
            => (products_df'.isNone \/ products_df' = products_df)
       /\ (last' # last /\ last'.op = "generate_orders" /\ last'.exc # "none")
            => /\ orders_df'.isNone \/ orders_df' = orders_df
               /\ order_items_df'.isNone \/ order_items_df' = order_items_df
       /\ (last'.op = "generate_customers" /\ last'.exc = "none")
            => Len(customers_df'.rows) = last'.arg
       /\ (last'.op = "generate_products" /\ last'.exc = "none")
            => Len(products_df'.rows) = last'.arg
       /\ (last'.op = "generate_orders" /\ last'.exc = "none")
            => Len(orders_df'.rows) = last'.arg]_vars

(* The (spend_date, channel) pairs of the Marketing Spend table. *)
SpendPairs ==
    {<<marketing_spend_df.rows[k].spend_date, marketing_spend_df.rows[k].channel>> :
        k \in 1..Len(marketing_spend_df.rows)}

(* C11: after generate_marketing_spend the Marketing Spend table holds one *)
(* record for every pair of a day d with base_date <= d <= end_date and a  *)
(* channel of the fixed list, and no other: D * K rows for D days and K    *)
(* channels, no (spend_date, channel) pair twice.  The call ends, having   *)
(* gone D times round the day loop.                                        *)
C11_OneRecordPerDayAndChannel ==
    last.op = "generate_marketing_spend" =>
        LET days == {d \in 0..(RunDate + 2) : base_date <= d /\ d <= end_date}
            channels == Range(MarketingChannels)
        IN  /\ ~marketing_spend_df.isNone
            /\ SpendPairs = days \X channels
            /\ Len(marketing_spend_df.rows)
                 = Cardinality(days) * Cardinality(channels)
            /\ Cardinality(channels) = 11
            /\ \A a, b \in 1..Len(marketing_spend_df.rows) :
                 (/\ marketing_spend_df.rows[a].spend_date
                        = marketing_spend_df.rows[b].spend_date
                  /\ marketing_spend_df.rows[a].channel
                        = marketing_spend_df.rows[b].channel) => a = b

(* Marketing spend has been generated over a range of three days. *)
C11_Witness ==
    /\ ReturnedFrom("generate_marketing_spend")
    /\ end_date - base_date = 2
    /\ Len(marketing_spend_df.rows) = 3 * Len(MarketingChannels)

(* C12: in every marketing spend record cpc and conversion_rate are        *)
(* present exactly when clicks is present and positive, cpm exactly when   *)
(* impressions is present and positive, cpa exactly when conversions is    *)
(* positive; a record of one of the four Ads channels has impressions and  *)
(* clicks, a record of any other channel has impressions, clicks and cpc   *)
(* absent.                                                                 *)
C12_MetricsNeedTheirDenominators ==
    calc.kind = "spend" =>
        LET r == calc.record
            positive(x) == x # NoValue /\ x[1] > 0
        IN  /\ r.cpc # NoValue <=> positive(r.clicks)
            /\ r.conversion_rate # NoValue <=> positive(r.clicks)
            /\ r.cpm # NoValue <=> positive(r.impressions)
            /\ r.cpa # NoValue <=> r.conversions > 0
            /\ IF r.channel \in {"Google Ads", "Facebook Ads", "Instagram Ads",
                                 "TikTok Ads"}
               THEN r.impressions # NoValue /\ r.clicks # NoValue
               ELSE /\ r.impressions = NoValue
                    /\ r.clicks = NoValue
                    /\ r.cpc = NoValue

(* An Email Marketing record of a January day whose budget brought no      *)
(* conversion: it has no cpa.                                              *)
C12_Witness ==
    /\ calc.kind = "spend"
    /\ calc.record.channel = "Email Marketing"
    /\ calc.draws.month = 1
    /\ calc.record.spend_amount = 3500
    /\ calc.record.conversions = 0
    /\ calc.record.cpa = NoValue

(* C13: a get_data_quality_report call returns, whatever calls came        *)
(* before; the report has a section for a table exactly when the table is  *)
(* not None, the orders_customers section exactly when Orders and          *)
(* Customers are there, the order_items_products section exactly when      *)
(* Order Items and Products are there, the business-rules section exactly  *)
(* when Orders is there; and the call changes no table.                    *)
C13_ReportNeverFails ==
    [][last'.op = "get_data_quality_report"
        => /\ last'.exc = "none"
           /\ DOMAIN last'.result.tables = PresentTables
           /\ "orders_customers" \in DOMAIN last'.result.referential_integrity
                <=> (~orders_df.isNone /\ ~customers_df.isNone)
           /\ "order_items_products" \in DOMAIN last'.result.referential_integrity
                <=> (~order_items_df.isNone /\ ~products_df.isNone)
           /\ "orders" \in last'.result.business_rules <=> ~orders_df.isNone
           /\ UNCHANGED <<customers_df, products_df, orders_df, order_items_df,
                          web_sessions_df, marketing_spend_df>>]_vars

(* C14: whatever generation calls have been made, every order's            *)
(* customer_id is the id of a row of Customers and every order item's      *)
(* product_id the id of a row of Products, and every referential-integrity *)
(* section of a returned quality report counts all its rows as valid       *)
(* (100%).                                                                 *)
C14_ReferencesAlwaysValid ==
    /\ (~orders_df.isNone /\ ~customers_df.isNone) =>
          \A k \in 1..Len(orders_df.rows) :
              orders_df.rows[k].customer_id
                  \in {customers_df.rows[c].customer_id :
                          c \in 1..Len(customers_df.rows)}
    /\ (~order_items_df.isNone /\ ~products_df.isNone) =>
          \A k \in 1..Len(order_items_df.rows) :
              order_items_df.rows[k].product_id
                  \in {products_df.rows[c].product_id :
                          c \in 1..Len(products_df.rows)}
    /\ ReturnedFrom("get_data_quality_report") =>
          \A check \in DOMAIN last.result.referential_integrity :
              LET section == last.result.referential_integrity[check]
              IN  /\ section.valid_references = section.total
                  /\ section.integrity_percentage[1]
                       = 100 * section.integrity_percentage[2]

(* C15: a generator built with the same arguments as an earlier one, the   *)
(* random generators seeded alike, that has made the same calls holds the  *)
(* same tables: here, the same Marketing Spend table.                      *)
C15_SameSeedSameTables ==
    (/\ first_run.made
     /\ last.op = first_run.calls)
        => marketing_spend_df = first_run.marketing_spend_df

(* C16: all six tables start as None, and every call changes only its own  *)
(* table: generate_customers only Customers, generate_products only        *)
(* Products, generate_orders only Orders and Order Items,                  *)
(* generate_web_sessions only Web Sessions, generate_marketing_spend only  *)
(* Marketing Spend; save_all_data, print_dataset_summary and               *)
(* get_data_quality_report change no table.  So a table is None until its  *)
(* own generation call.                                                    *)
C16_EachCallChangesItsOwnTable ==
    /\ \A name \in Range(TableNames) : Table(name).isNone
    /\ [][/\ last'.op = "generate_customers" =>
               UNCHANGED <<products_df, orders_df, order_items_df,
                           web_sessions_df, marketing_spend_df>>
          /\ last'.op = "generate_products" =>
               UNCHANGED <<customers_df, orders_df, order_items_df,
                           web_sessions_df, marketing_spend_df>>
          /\ last'.op = "generate_orders" =>
               UNCHANGED <<customers_df, products_df, web_sessions_df,
                           marketing_spend_df>>
          /\ last'.op = "generate_web_sessions" =>
               UNCHANGED <<customers_df, products_df, orders_df,
                           order_items_df, marketing_spend_df>>
          /\ last'.op = "generate_marketing_spend" =>
               UNCHANGED <<customers_df, products_df, orders_df,
                           order_items_df, web_sessions_df>>
          /\ last'.op \in {"save_all_data", "print_dataset_summary",
                           "get_data_quality_report",
                           "generate_complete_dataset"} =>
               UNCHANGED <<customers_df, products_df, orders_df,
                           order_items_df, web_sessions_df,
                           marketing_spend_df>>
          /\ last'.op \in Range(Stages) \cup
                 {"save_all_data", "get_data_quality_report",
                  "generate_complete_dataset"}]_vars

(* save_all_data has returned after all five generation calls: six files   *)
(* written, the six tables still there.                                    *)
C16_Witness ==
    /\ ReturnedFrom("save_all_data")
    /\ last.arg = 6
    /\ \A name \in Range(TableNames) : Len(Table(name).rows) >= 1

(* The six tables are there, none of them empty. *)
AllTablesGenerated ==
    \A name \in Range(TableNames) :
        ~Table(name).isNone /\ Table(name).rows # <<>>

(* C17: generate_complete_dataset makes its calls in the order customers,  *)
(* products, orders, web sessions, marketing spend, each one whole before  *)
(* the next: when the orders are about to be generated Customers and       *)
(* Products hold all their rows, when the sessions are about to be         *)
(* generated Orders does, the marketing spend comes after the sessions and *)
(* before nothing but the summary; when the call returns all six tables    *)
(* are there; and once a stage has raised no further stage runs.           *)
C17_StagesInDependencyOrder ==
    /\ [](/\ pc.stage = "generate_products" =>
               /\ ReturnedFrom("generate_customers")
               /\ Len(customers_df.rows) = num_customers
          /\ pc.stage = "generate_orders" =>
               /\ ReturnedFrom("generate_products")
               /\ Len(customers_df.rows) = num_customers
               /\ Len(products_df.rows) = pc.num_products
               /\ num_customers >= 1 /\ pc.num_products >= 1
          /\ pc.stage = "generate_web_sessions" =>
               /\ ReturnedFrom("generate_orders")
               /\ Len(customers_df.rows) = num_customers
               /\ Len(orders_df.rows) = pc.num_orders
               /\ ~order_items_df.isNone
          /\ pc.stage = "generate_marketing_spend" =>
               /\ ReturnedFrom("generate_web_sessions")
               /\ Len(web_sessions_df.rows) = pc.num_sessions
          /\ pc.stage = "print_dataset_summary" =>
               /\ ReturnedFrom("generate_marketing_spend")
               /\ AllTablesGenerated
          /\ ReturnedFrom("generate_complete_dataset") =>
               pc = Idle /\ AllTablesGenerated)
    /\ [][pc # Idle =>
            /\ last'.op = pc.stage \/ last'.op = "generate_complete_dataset"
            /\ last'.exc # "none" => pc' = Idle
            /\ last'.op = "generate_complete_dataset" =>
                 pc.stage = "print_dataset_summary" /\ pc' = Idle]_vars

(* generate_complete_dataset has returned, having generated two products,  *)
(* one order and one session for the generator's one customer.             *)
C17_Witness ==
    /\ ReturnedFrom("generate_complete_dataset")
    /\ Len(customers_df.rows) = 1
    /\ Len(products_df.rows) = 2
    /\ Len(orders_df.rows) = 1
    /\ Len(web_sessions_df.rows) = 1
    /\ Len(marketing_spend_df.rows) >= Len(MarketingChannels)

(* C18, as stated: the status of an order follows from the whole days      *)
(* between its order_date and the run date: 0 days gives pending, 1 to 3   *)
(* days pending or processing, 7 days or more delivered, cancelled or      *)
(* returned.                                                               *)
C18_StatusFollowsElapsedDays ==
    calc.kind = "status" =>
        /\ calc.days_since_order = 0 => calc.order_status = "pending"
        /\ calc.days_since_order \in 1..3 =>
              calc.order_status \in {"pending", "processing"}
        /\ calc.days_since_order >= 7 =>
              calc.order_status \in {"delivered", "cancelled", "returned"}

(* C18, amended: 0 days gives pending, 1 to 2 days pending or processing,  *)
(* 3 to 6 days processing or shipped, 7 days or more delivered, cancelled  *)
(* or returned; the days are never negative.                               *)
C18_StatusFollowsElapsedDaysAmended ==
    calc.kind = "status" =>
        /\ calc.days_since_order >= 0
        /\ calc.days_since_order = 0 => calc.order_status = "pending"
        /\ calc.days_since_order \in 1..2 =>
              calc.order_status \in {"pending", "processing"}
        /\ calc.days_since_order \in 3..6 =>
              calc.order_status \in {"processing", "shipped"}
        /\ calc.days_since_order >= 7 =>
              calc.order_status \in {"delivered", "cancelled", "returned"}

(* An order placed three days before the run has been given its status. *)
C18_Witness ==
    /\ calc.kind = "status"
    /\ calc.days_since_order = 3
    /\ calc.order_status = "shipped"

(* The sum of a column over the first n rows, the last row added last. *)
RECURSIVE ColumnTotal(_, _, _)
ColumnTotal(rows, col, n) ==
    IF n = 0 THEN 0 ELSE ColumnTotal(rows, col, n - 1) + rows[n][col]

(* C19: each item row's line_total is its unit_price times its quantity    *)
(* and its line_cost its cost_per_unit times its quantity, unit_price and  *)
(* cost_per_unit being the retail_price and the cost of the product the    *)
(* row was made from; the order's subtotal is the sum of its rows'         *)
(* line_total and its total_items the sum of their quantity.               *)
C19_LinesAndOrderSums ==
    calc.kind = "order" =>
        LET items == calc.amounts.items
            n == Len(calc.draws.selected_products)
        IN  /\ Len(items) = n
            /\ \A j \in 1..n :
                  /\ items[j].quantity = calc.draws.quantities[j]
                  /\ items[j].unit_price = calc.draws.selected_products[j].retail_price
                  /\ items[j].cost_per_unit = calc.draws.selected_products[j].cost
                  /\ items[j].line_total = items[j].unit_price * items[j].quantity
                  /\ items[j].line_cost = items[j].cost_per_unit * items[j].quantity
            /\ calc.amounts.order.subtotal = ColumnTotal(items, "line_total", n)
            /\ calc.amounts.order.total_items = ColumnTotal(items, "quantity", n)

(* An order of two lines of different products, two units of one and three *)
(* of the other, has its amounts.                                          *)
C19_Witness ==
    /\ calc.kind = "order"
    /\ Len(calc.amounts.items) = 2
    /\ calc.amounts.items[1].quantity = 2
    /\ calc.amounts.items[2].quantity = 3
    /\ calc.amounts.items[1].unit_price # calc.amounts.items[2].unit_price
    /\ calc.amounts.order.total_items = 5
    /\ calc.amounts.items[2].line_cost > calc.amounts.items[2].cost_per_unit

(* The VAT rate of a country, in percent. *)
VatPercent(country) ==
    CASE country = "Portugal" -> 23
      [] country = "Spain" -> 21
      [] country = "France" -> 20
      [] country = "Germany" -> 19
      [] country = "Italy" -> 22
      [] country = "United Kingdom" -> 20

(* C20: an order's tax_amount is (subtotal - discount_amount) times the    *)
(* VAT rate of its customer's country, to the nearest cent; the customer's *)
(* country is always a key of the rate table, so the default rate is never *)
(* the one used for want of a key.                                         *)
C20_TaxByCustomerCountry ==
    calc.kind = "order" =>
        LET country == calc.draws.customer_info.country
            order == calc.amounts.order
            exact == (order.subtotal - order.discount_amount) * VatPercent(country)
        IN  /\ country \in TaxRateKeys
            /\ calc.amounts.country = country
            /\ 2 * (100 * order.tax_amount - exact) <= 100
            /\ 2 * (exact - 100 * order.tax_amount) <= 100

(* A German customer's discounted order has its tax, at a rate that is not *)
(* the default one.                                                        *)
C20_Witness ==
    /\ calc.kind = "order"
    /\ calc.draws.customer_info.country = "Germany"
    /\ calc.amounts.order.discount_amount > 0
    /\ calc.amounts.order.tax_amount > 0
    /\ calc.amounts.order.tax_amount
         # RoundHalfEven((calc.amounts.order.subtotal
                            - calc.amounts.order.discount_amount) * 23, 100)

(* C21: a call of generate_web_sessions for one session or more, on a      *)
(* valid date range, returns whatever tables there are; each session's     *)
(* customer_id is None or the id of a row of Customers; and without a      *)
(* Customers table every session has customer_id None.                     *)
C21_SessionsNeedNoOtherTable ==
    [][last'.op = "generate_web_sessions" /\ last'.arg >= 1
         /\ base_date <= end_date =>
           /\ last'.exc = "none"
           /\ Len(web_sessions_df'.rows) = last'.arg
           /\ \A k \in 1..Len(web_sessions_df'.rows) :
                 LET customer_id == web_sessions_df'.rows[k].customer_id
                 IN  \/ customer_id = NoValue
                     \/ /\ ~customers_df.isNone
                        /\ customer_id[1] \in Column(customers_df, "customer_id")
           /\ customers_df.isNone =>
                 \A k \in 1..Len(web_sessions_df'.rows) :
                     web_sessions_df'.rows[k].customer_id = NoValue]_vars

(* C22: a generated customer's created_at is on or after base_date, its    *)
(* updated_at on or after its created_at, and its customer_segment is VIP, *)
(* Regular or New.                                                         *)
C22_CustomerDatesOrdered ==
    calc.kind = "customer" =>
        /\ base_date <= calc.row.created_at
        /\ calc.row.created_at <= calc.row.updated_at
        /\ calc.row.customer_segment \in {"VIP", "Regular", "New"}

(* A New customer created after base_date and active after its creation    *)
(* has its dates.                                                          *)
C22_Witness ==
    /\ calc.kind = "customer"
    /\ calc.row.customer_segment = "New"
    /\ calc.row.created_at > base_date
    /\ calc.row.updated_at > calc.row.created_at

(* C23: when generate_complete_dataset(num_customers, num_products,        *)
(* num_orders, num_sessions) returns, Customers, Products, Orders and Web  *)
(* Sessions have as many rows as these arguments say, whatever the         *)
(* num_customers of the constructor.                                       *)
C23_ArgumentsGiveTableSizes ==
    [][last'.op = "generate_complete_dataset" /\ last'.exc = "none" =>
           /\ Len(customers_df'.rows) = pc.num_customers
           /\ Len(products_df'.rows) = pc.num_products
           /\ Len(orders_df'.rows) = pc.num_orders
           /\ Len(web_sessions_df'.rows) = pc.num_sessions]_vars

(* C24: a product's stored margin_percent is 100 * (retail_price - cost) / *)
(* retail_price, rounded to two decimals: in hundredths of a percent,      *)
(* 10000 * (retail_price - cost) / retail_price to the nearest unit.       *)
C24_MarginMatchesCostAndPrice ==
    calc.kind = "product" =>
        calc.row.margin_percent =
            RoundHalfEven((10 ^ 4) * (calc.row.retail_price - calc.row.cost),
                          calc.row.retail_price)

(* Every step the run was to make has been made and none has failed: none  *)
(* returned False and none raised.  The run of --validate-only is to make  *)
(* the one step validate_setup, any other run the ten of SetupSteps.       *)
AllStepsCompleted ==
    /\ setup.ran = IF setup.args.validate_only THEN <<"validate_setup">>
                   ELSE SetupSteps
    /\ \A k \in 1..Len(setup.results) :
          setup.results[k] \notin {"False", "raise"}

(* C25: run_setup returns True, and main reports success and exits with    *)
(* status 0, exactly when every setup step has completed without failing;  *)
(* and --validate-only exits with status 0 when validate_setup completes.  *)
C25_SuccessIffAllStepsComplete ==
    /\ setup.at \in {"returned", "exited"} /\ ~setup.args.validate_only =>
          (setup.returned = Value("True") <=> AllStepsCompleted)
    /\ setup.at = "exited" =>
          (setup.exit = Value(0) <=> AllStepsCompleted)

(* The steps made so far are the first steps of SetupSteps, in its order. *)
RanInListedOrder ==
    /\ Len(setup.ran) <= Len(SetupSteps)
    /\ \A k \in 1..Len(setup.ran) : setup.ran[k] = SetupSteps[k]

(* C26: run_setup makes the steps in the order of its list; every step     *)
(* before the last one made has returned a true value; and once a step has *)
(* returned a false value or raised, no further step is made, the success  *)
(* message is not printed and run_setup has returned False.                *)
C26_StopsAtFirstFailingStep ==
    /\ [](setup.at # "none" /\ ~setup.args.validate_only =>
            /\ RanInListedOrder
            /\ Len(setup.results) = Len(setup.ran)
            /\ \A k \in 1..(Len(setup.results) - 1) :
                  StepSucceeded(setup.results[k])
            /\ (setup.results # <<>>
                  /\ ~StepSucceeded(setup.results[Len(setup.results)])) =>
                  /\ setup.at \in {"returned", "exited"}
                  /\ ~setup.success_message
                  /\ setup.returned = Value("False"))
    /\ [][(setup.at \in {"returned", "exited"}) =>
            /\ setup'.ran = setup.ran
            /\ setup'.success_message = setup.success_message
            /\ setup'.returned = setup.returned]_vars

(* run_setup has returned False after setup_python_environment raised:     *)
(* three steps made, the first two with success.                           *)
C26_Witness ==
    /\ setup.at = "exited"
    /\ ~setup.args.validate_only
    /\ setup.ran = SubSeq(SetupSteps, 1, 3)
    /\ setup.results = <<"True", "True", "raise">>
    /\ setup.returned = Value("False")

(* C27: start_database_services returns.  It probes at most MaxAttempts    *)
(* times, and only after docker-compose up has succeeded; it returns True  *)
(* at the first probe that succeeds, and False after MaxAttempts probes    *)
(* that failed; it returns False without a probe when docker-compose.yml   *)
(* is missing or docker-compose up fails; and after its return there is no *)
(* further probe.                                                          *)
C27_ServicesStartTerminates ==
    /\ [](setup.at # "none" =>
            /\ setup.attempts <= MaxAttempts
            /\ setup.services \in {"none", "no_file", "up_failed", "up_raised"}
                  => setup.attempts = 0
            /\ setup.services \in {"no_file", "up_failed"} =>
                  setup.results[5] = "False"
            /\ setup.services = "probing" =>
                  setup.at = "services" /\ setup.attempts < MaxAttempts
            /\ setup.services = "ready" =>
                  setup.results[5] = "True" /\ setup.attempts >= 1
            /\ setup.services = "timeout" =>
                  setup.results[5] = "False" /\ setup.attempts = MaxAttempts)
    /\ [][(setup.at # "none" /\ setup.at # "services"
              /\ setup.services # "none") =>
            setup'.attempts = setup.attempts]_vars
    /\ (setup.at = "run_setup" /\ setup.step = 5)
          ~> (setup.at \notin {"run_setup", "services"} \/ setup.step > 5)

(* start_database_services has returned False after MaxAttempts probes. *)
C27_Witness ==
    /\ setup.at \in {"returned", "exited"}
    /\ setup.services = "timeout"
    /\ setup.attempts = MaxAttempts
    /\ setup.results = <<"True", "True", "True", "True", "False">>

(* C28: in a run of the setup with --skip-data-generation, the step        *)
(* generate_sample_data is not made.                                       *)
C28_SkipFlagSkipsGeneration ==
    (setup.at # "none" /\ setup.args.skip_data_generation
        /\ ~setup.args.validate_only) =>
        \A k \in 1..Len(setup.ran) : setup.ran[k] # "generate_sample_data"

(* C29: an order's total_amount is positive; its discount_amount is 0 or   *)
(* lies between 5% and 25% of the subtotal, to the cent, so between 0 and  *)
(* the subtotal; tax_amount and shipping_cost are not negative;            *)
(* shipping_cost is 0 exactly when subtotal is above 50.00; and the order  *)
(* counts among the quality report's positive_amounts.                     *)
C29_AmountsPositive ==
    calc.kind = "order" =>
        LET order == calc.amounts.order
        IN  /\ order.total_amount > 0
            /\ 0 <= order.discount_amount
            /\ order.discount_amount <= order.subtotal
            /\ \/ order.discount_amount = 0
               \/ /\ RoundHalfEven(order.subtotal * 5, 100) <= order.discount_amount
                  /\ order.discount_amount <= RoundHalfEven(order.subtotal * 25, 100)
            /\ order.tax_amount >= 0
            /\ order.shipping_cost >= 0
            /\ order.shipping_cost = 0 <=> order.subtotal > 5000
            /\ PositiveAmount(order)

(* An order of exactly 50.00, discounted, pays for its shipping. *)
C29_Witness ==
    /\ calc.kind = "order"
    /\ calc.amounts.order.subtotal = 5000
    /\ calc.amounts.order.discount_amount > 0
    /\ calc.amounts.order.shipping_cost > 0
    /\ calc.amounts.order.total_amount > 0

(* C30: an order's created_at is not after its updated_at, and created_at  *)
(* falls on the order's order_date.                                        *)
C30_OrderTimestampsOrdered ==
    calc.kind = "stamp" =>
        /\ calc.row.created_at <= calc.row.updated_at
        /\ DateOf(calc.row.created_at) = calc.row.order_date

=============================================================================
